---------------------------- MODULE Spec2Model ----------------------------
(***************************************************************************)
(* Astrofinn: the Earth3D heliocentric scene (src/unnamed/part_001).       *)
(*                                                                         *)
(* Units of the model (the source computes in IEEE doubles; the model in   *)
(* integers):                                                              *)
(*   time      milliseconds            (delta 0.05 s           = 50)       *)
(*   angle     1/11200000 rad          (0.04 rad/s             = 448/ms)   *)
(*   trig arg  1/10000 rad, trig value scaled by 10000                     *)
(*   length    tenths of a scene unit  (SEMI_MAJOR_AXIS 250    = 2500)     *)
(* The angle unit is the coarsest one in which the four angular speeds of  *)
(* the Earth group are whole numbers per millisecond.                      *)
(***************************************************************************)
EXTENDS Integers, Sequences, FiniteSets, TLC

----------------------------------------------------------------------------
(* Bounds of the model *)

\* Frames rendered plus user events in one behaviour
MaxSteps == 5

----------------------------------------------------------------------------
(* Constants for Simulation, part_001 lines 15-55 *)

EARTH_RADIUS == 20
SEMI_MAJOR_AXIS == 2500
SEMI_MINOR_AXIS == 2150
FOCAL_OFFSET == 800

\* 0.15 rad/s and 0.04 rad/s in angle units per millisecond
BASE_ROTATION_SPEED == 1680
BASE_ORBIT_SPEED == 448
EARTH_ROTATION_SPEED == BASE_ROTATION_SPEED
EARTH_YEAR_SPEED == BASE_ORBIT_SPEED
\* The source multiplies by the literal 13.03571428571429, which is 365/28
\* to the last printed digit.
MOON_ORBIT_SPEED_Sidereal == (EARTH_YEAR_SPEED * 36525) \div 2730
MOON_ORBIT_SPEED == (EARTH_YEAR_SPEED * 365) \div 28
\* EARTH_ROTATION_SPEED * 1.0625 (line 844)
CLOUD_ROTATION_SPEED == (EARTH_ROTATION_SPEED * 17) \div 16

\* Math.min(delta, 0.05), lines 454 and 758
DELTA_CAP == 50
\* setTimeout(..., 100), line 751
TRANSITION_MS == 100
\* dist > 300, line 785
DRIFT_LIMIT == 3000

\* angle units per trig argument unit
TrigDiv == 1120
\* angle units per radian / 10 (startAngle is given in tenths of a radian)
TenthRad == 1120000

----------------------------------------------------------------------------
(* Integer arithmetic standing for the doubles of the source *)

Min(a, b) == IF a <= b THEN a ELSE b
Max(a, b) == IF a >= b THEN a ELSE b
Abs(a) == IF a < 0 THEN -a ELSE a

\* n / d rounded to the nearest integer
RoundDiv(n, d) ==
    IF d < 0 THEN (2 * (-n) + (-d)) \div (2 * (-d))
    ELSE (2 * n + d) \div (2 * d)

RECURSIVE SqrtIter(_, _, _)
SqrtIter(n, lo, hi) ==
    IF lo >= hi THEN lo
    ELSE LET mid == (lo + hi + 1) \div 2
         IN  IF mid * mid <= n THEN SqrtIter(n, mid, hi)
             ELSE SqrtIter(n, lo, mid - 1)

\* floor of the square root, 0 <= n < 2^31
Sqrt(n) == SqrtIter(n, 0, 46340)

\* Math.cos and Math.sin on an argument in 1/10000 rad, value scaled by 10000
TrigScale == 10000
HalfPi == 15708
Pi == 31416
TwoPi == 62832

CosQ(x) ==
    LET x2 == (x * x) \div TrigScale
        t1 == x2 \div 2
        t2 == (t1 * x2) \div (12 * TrigScale)
        t3 == (t2 * x2) \div (30 * TrigScale)
        t4 == (t3 * x2) \div (56 * TrigScale)
    IN  TrigScale - t1 + t2 - t3 + t4

SinQ(x) ==
    LET x2 == (x * x) \div TrigScale
        s2 == (x * x2) \div (6 * TrigScale)
        s3 == (s2 * x2) \div (20 * TrigScale)
        s4 == (s3 * x2) \div (42 * TrigScale)
        s5 == (s4 * x2) \div (72 * TrigScale)
    IN  x - s2 + s3 - s4 + s5

Cos(a) ==
    LET r == a % TwoPi
    IN  IF r <= HalfPi THEN CosQ(r)
        ELSE IF r <= Pi THEN -CosQ(Pi - r)
        ELSE IF r <= Pi + HalfPi THEN -CosQ(r - Pi)
        ELSE CosQ(TwoPi - r)

Sin(a) ==
    LET r == a % TwoPi
    IN  IF r <= HalfPi THEN SinQ(r)
        ELSE IF r <= Pi THEN SinQ(Pi - r)
        ELSE IF r <= Pi + HalfPi THEN -SinQ(r - Pi)
        ELSE -SinQ(TwoPi - r)

\* THREE.Vector3
Vec(a, b, c) == [x |-> a, y |-> b, z |-> c]
Zero3 == Vec(0, 0, 0)
VAdd(u, v) == Vec(u.x + v.x, u.y + v.y, u.z + v.z)
VSub(u, v) == Vec(u.x - v.x, u.y - v.y, u.z - v.z)
LenSq(u) == u.x * u.x + u.y * u.y + u.z * u.z
DistSq(u, v) == LenSq(VSub(u, v))
\* Vector3.lerp(v, 0.1) and Vector3.lerp(v, 0.05): this += (v - this) * alpha
Lerp(u, v, den) ==
    Vec(u.x + RoundDiv(v.x - u.x, den),
        u.y + RoundDiv(v.y - u.y, den),
        u.z + RoundDiv(v.z - u.z, den))
\* Vector3.setLength(l): normalize().multiplyScalar(l); the zero vector stays zero
SetLength(u, l) ==
    LET len == Sqrt(LenSq(u))
    IN  IF len = 0 THEN u
        ELSE Vec(RoundDiv(u.x * l, len), RoundDiv(u.y * l, len), RoundDiv(u.z * l, len))


----------------------------------------------------------------------------
(* type ViewMode, line 58 *)

ViewModes ==
    {"EARTH_FREE", "EARTH_DAY", "EARTH_NIGHT", "SYSTEM_TOP", "SYSTEM_AUTO", "SOLAR_SYSTEM"}

\* focusedPlanet === null
NoFocus == "null"

(* PLANETS, lines 507-586.  radius and distance in tenths of a unit;       *)
(* period: the orbital period in thousandths of a year (speed is           *)
(* BASE_ORBIT_SPEED * (1 / years)); rotPeriod: the rotation period in      *)
(* hundredths of a day (rotationSpeed is BASE_ROTATION_SPEED * (1 / days), *)
(* negative: retrograde); startAngle in tenths of a radian.                *)
PLANETS ==
    [ Mercury |-> [radius |-> 8,   distance |-> 700,  period |-> 240,
                   rotPeriod |-> 5860,   startAngle |-> 0],
      Venus   |-> [radius |-> 19,  distance |-> 1100, period |-> 615,
                   rotPeriod |-> -24300, startAngle |-> 20],
      Mars    |-> [radius |-> 11,  distance |-> 3200, period |-> 1880,
                   rotPeriod |-> 103,    startAngle |-> 40],
      Jupiter |-> [radius |-> 100, distance |-> 4500, period |-> 11860,
                   rotPeriod |-> 41,     startAngle |-> 10],
      Saturn  |-> [radius |-> 85,  distance |-> 5800, period |-> 29400,
                   rotPeriod |-> 45,     startAngle |-> 30],
      Uranus  |-> [radius |-> 35,  distance |-> 7000, period |-> 84000,
                   rotPeriod |-> -72,    startAngle |-> 50],
      Neptune |-> [radius |-> 34,  distance |-> 8000, period |-> 164800,
                   rotPeriod |-> 67,     startAngle |-> 5] ]

PlanetNames == DOMAIN PLANETS

\* The names of the planet selector, line 1074
FocusNames ==
    {"Mercury", "Venus", "Earth", "Mars", "Jupiter", "Saturn", "Uranus", "Neptune"}

\* The planet buttons the model presses: the Earth and the fastest planet
FocusChoices == {"Earth", "Mercury"}

\* The mode buttons of the control overlay, lines 1040-1067
ModeButtons == {"EARTH_FREE", "SOLAR_SYSTEM", "EARTH_DAY", "EARTH_NIGHT"}

----------------------------------------------------------------------------
(* Kinematics *)

\* const safeDelta = Math.min(delta, 0.05), lines 454 and 758
SafeDeltaRaw(delta) == delta
SafeDelta(delta) == Min(delta, DELTA_CAP)

\* lines 763-765: the point of the ellipse at the orbit angle
EarthOrbitPos(angle) ==
    LET a == RoundDiv(angle, TrigDiv)
    IN  Vec(-FOCAL_OFFSET + RoundDiv(SEMI_MAJOR_AXIS * Cos(a), TrigScale),
            0,
            RoundDiv(SEMI_MINOR_AXIS * Sin(a), TrigScale))

\* config.speed * t, t in milliseconds: BASE_ORBIT_SPEED * (1 / years) * t
OrbitAdvance(p, t) == RoundDiv(t * BASE_ORBIT_SPEED * 1000, PLANETS[p].period)

\* config.rotationSpeed * delta, line 636
RotationAdvanceAbs(p, delta) ==
    RoundDiv(delta * BASE_ROTATION_SPEED * 100, Abs(PLANETS[p].rotPeriod))
RotationAdvance(p, delta) ==
    RoundDiv(delta * BASE_ROTATION_SPEED * 100, PLANETS[p].rotPeriod)

\* PlanetMesh useFrame, lines 628-632: currentAngle and the orbit group's position
PlanetMeshAngleTenth(p, t) ==
    PLANETS[p].startAngle * TenthRad + RoundDiv(OrbitAdvance(p, t), 10)
PlanetMeshAngle(p, t) == PLANETS[p].startAngle * TenthRad + OrbitAdvance(p, t)

PlanetMeshPos(p, t) ==
    LET a == RoundDiv(PlanetMeshAngle(p, t), TrigDiv)
    IN  Vec(RoundDiv(Cos(a) * PLANETS[p].distance, TrigScale),
            0,
            RoundDiv(Sin(a) * PLANETS[p].distance, TrigScale))

\* HeliocentricSystem useFrame, lines 805-808: the focus tracker's own copy of
\* the formula
TrackerAngle(p, t) == PLANETS[p].startAngle * TenthRad + OrbitAdvance(p, t)

TrackerPos(p, t) ==
    LET a == RoundDiv(TrackerAngle(p, t), TrigDiv)
    IN  Vec(RoundDiv(Cos(a) * PLANETS[p].distance, TrigScale),
            0,
            RoundDiv(Sin(a) * PLANETS[p].distance, TrigScale))

----------------------------------------------------------------------------
(* Camera *)

\* The camera and the controls rendered with viewMode, lines 981-1011
OrbitCameraMode(vm) == vm \in {"EARTH_FREE", "SOLAR_SYSTEM"}

\* minDistance and maxDistance of OrbitControls, lines 999-1000
MinDistance(vm, fp) ==
    IF vm = "SOLAR_SYSTEM" THEN (IF fp # NoFocus THEN 50 ELSE 500) ELSE 50
MaxDistance(vm) == IF vm = "SOLAR_SYSTEM" THEN 40000 ELSE 2500

\* OrbitControls.update(): the camera is kept at a distance of the target
\* between minDistance and maxDistance, in the direction it is in (a camera on
\* the target is put above it)
ControlsUpdate(cam, tgt, vm, fp) ==
    LET off == VSub(cam, tgt)
        lsq == LenSq(off)
        lo == MinDistance(vm, fp)
        hi == MaxDistance(vm)
    IN  IF lsq = 0 THEN VAdd(tgt, Vec(0, lo, 0))
        ELSE IF lsq < lo * lo THEN VAdd(tgt, SetLength(off, lo))
        ELSE IF lsq > hi * hi THEN VAdd(tgt, SetLength(off, hi))
        ELSE cam

\* Position of a freshly mounted camera: <PerspectiveCamera> without a position
\* (line 983) and with position={[0, 50, 100]} (line 1006)
FreshCamPos(vm) == IF OrbitCameraMode(vm) THEN Zero3 ELSE Vec(0, 500, 1000)


----------------------------------------------------------------------------
(* State *)

VARIABLES
    viewMode,        \* the viewMode prop of the scene on display; Earth3D useState, line 1017
    focusedPlanet,   \* the focusedPlanet prop of the scene on display; useState, line 1018
    isTransitioning, \* useRef(false), line 706
    timers,          \* the pending setTimeout of line 733: milliseconds until due
    orbitAngle,      \* useRef(0), line 704
    earthRot,        \* earthGroupRef.current.rotation.y
    cloudsRot,       \* cloudsRef.current.rotation.y
    moonAngle,       \* MoonMesh orbitGroupRef.current.rotation.y
    earthPos,        \* earthContainerRef.current.position
    prevEarthPos,    \* useRef(new Vector3(a - c, 0, 0)), line 705
    camPos,          \* state.camera.position
    camTarget,       \* controlsRef.current.target; the lookAt point of the fixed camera
    camUp,           \* state.camera.up
    elapsed,         \* state.clock.elapsedTime
    planetPos,       \* PlanetMesh orbitRef.current.position, per planet
    planetRot,       \* PlanetMesh meshRef.current.rotation.y, per planet
    meshT,           \* the elapsed time the PlanetMesh callbacks read in their last frame
    rendered,        \* the planets whose PlanetMesh is in the scene on display
    earthSun,        \* what the Earth shader's sunPosition was computed from
    moonSun,         \* what the Moon shader's sunPosition was computed from
    frameNo,         \* frames rendered so far
    events,          \* user events so far
    lastDelta,       \* the raw delta of the last frame
    lastTrack,       \* the focus tracker in the last frame: name, targetPos
    lastBranch,      \* the camera branch of lines 777-891 the last frame took
    sinceChange,     \* milliseconds since the effect of line 729 last ran, up to 100
    trip             \* whether PlanetFocus(Earth) is on, or was just left for EARTH_FREE

VARIABLES
    texture,         \* useLoader's cache entry of each planet's texture, line 607
    canvas,          \* what the <Suspense> of lines 1025-1035 has on display
    topic,           \* QuizModule: the topic prop, line 7
    questions,       \* QuizModule useState, line 13
    currentIndex,    \* QuizModule useState, line 14
    selectedOption,  \* QuizModule useState, line 15
    isAnswered,      \* QuizModule useState, line 16
    loading,         \* QuizModule useState, line 17
    score,           \* QuizModule useState, line 18
    fetches,         \* promises of the content service whose continuation has not run
    sunHeight,       \* ShadowLab useState, line 11
    dotProd          \* dot(normal, sunDir) of the fragment being shaded, in thousandths

VARIABLES
    mode,            \* the mode prop of the mounted OrbitCommand, "none" before its mount
    commands,        \* OrbitCommand useState, line 13
    commandsLoading, \* OrbitCommand useState loading, line 14
    commandIndex,    \* OrbitCommand useState currentIndex, line 15
    commandFetches,  \* the promises fetchCommands awaits, line 19
    effectPending    \* whether the effect of lines 26-30 is still to run after the commit

\* HeliocentricSystem and the controls of Earth3D
sceneVars ==
    << viewMode, focusedPlanet, isTransitioning, timers,
       orbitAngle, earthRot, cloudsRot, moonAngle, earthPos, prevEarthPos,
       camPos, camTarget, camUp, elapsed, planetPos, planetRot, meshT, rendered,
       earthSun, moonSun, frameNo, events, lastDelta, lastTrack, lastBranch,
       sinceChange, trip >>
loadVars == << texture, canvas >>
quizVars ==
    << topic, questions, currentIndex, selectedOption, isAnswered, loading,
       score, fetches >>
labVars == << sunHeight >>
shaderVars == << dotProd >>
commandVars ==
    << mode, commands, commandsLoading, commandIndex, commandFetches, effectPending >>

vars == << sceneVars, loadVars, quizVars, labVars, shaderVars, commandVars >>

uiVars == << viewMode, focusedPlanet >>
lockVars == << isTransitioning, timers, sinceChange >>
earthVars ==
    << orbitAngle, earthRot, cloudsRot, moonAngle, earthPos, prevEarthPos,
       earthSun, moonSun >>
camVars == << camPos, camTarget, camUp >>
planetVars == << planetPos, planetRot, meshT, rendered >>
frameVars == << elapsed, frameNo, lastDelta, lastTrack, lastBranch >>

\* Raw frame deltas in milliseconds: none, below the cap, the cap, above the
\* cap (a slow frame; the first frame after the tab was in the background)
Deltas == {0, 50, 125}

\* Milliseconds the clock advances between two reads of it in one frame
Skews == {0, 2}

NoTrack == [name |-> NoFocus, found |-> FALSE, pos |-> Zero3]
NotRead == -1

UnmountedPlanetPos == [p \in PlanetNames |-> Zero3]
UnmountedPlanetRot == [p \in PlanetNames |-> 0]

\* position={[SEMI_MAJOR_AXIS - FOCAL_OFFSET, 0, 0]}, lines 705 and 908
EarthStart == Vec(SEMI_MAJOR_AXIS - FOCAL_OFFSET, 0, 0)

\* useState(null): no option selected
NoOption == "null"

(* useLoader (lines 607 and 686) keeps one cache entry per texture: idle     *)
(* before the first render that asks for it, then pending, then loaded or   *)
(* failed.  A render that asks for a pending texture suspends: the Suspense *)
(* of line 1025 puts its fallback on display in place of the scene, and the *)
(* scene is rendered with the new state of Earth3D only once nothing        *)
(* suspends.  A render that asks for a failed texture throws; no component  *)
(* of the application catches it, so the tree of the application is         *)
(* unmounted.  While the fallback is on display, canvas.ui is the state of  *)
(* Earth3D, and viewMode and focusedPlanet are the props of the scene as    *)
(* last rendered.                                                           *)
Shown == [state |-> "shown"]
Suspended(ui) == [state |-> "suspended", ui |-> ui]
Crashed == [state |-> "crashed"]

\* Earth3D useState, lines 1017-1018: what the controls have set
UIState ==
    IF canvas.state = "suspended" THEN canvas.ui ELSE << viewMode, focusedPlanet >>

\* The planets' textures are in useLoader's cache and the scene is on display
TexturesLoaded == texture = [p \in PlanetNames |-> "loaded"] /\ canvas = Shown

\* No planet texture was asked for yet
TexturesIdle == texture = [p \in PlanetNames |-> "idle"] /\ canvas = Shown

\* QuizModule before its first render: the initial values of lines 13-18
QuizUnmounted ==
    /\ topic = << >>
    /\ questions = << >>
    /\ currentIndex = 0
    /\ selectedOption = NoOption
    /\ isAnswered = FALSE
    /\ loading = TRUE
    /\ score = 0
    /\ fetches = << >>

\* useState(45), ShadowLab line 11
LabStart == sunHeight = 45

\* No fragment is being shaded
ShaderIdle == dotProd = 0

\* OrbitCommand before its mount
CommandUnmounted ==
    /\ mode = "none"
    /\ commands = << >>
    /\ commandsLoading = FALSE
    /\ commandIndex = 0
    /\ commandFetches = << >>
    /\ effectPending = FALSE

(* The state after Earth3D is mounted and the textures of the scene are    *)
(* loaded: the effect of line 729 has run once (it runs on mount), so the  *)
(* lock is held and its timer is pending.                                  *)
SceneStart ==
    /\ viewMode = "EARTH_FREE"
    /\ focusedPlanet = NoFocus
    /\ isTransitioning = TRUE
    /\ timers = << TRANSITION_MS >>
    /\ orbitAngle = 0
    /\ earthRot = 0
    /\ cloudsRot = 0
    /\ moonAngle = 0
    /\ earthPos = EarthStart
    /\ prevEarthPos = EarthStart
    /\ camPos = FreshCamPos("EARTH_FREE")
    /\ camTarget = Zero3
    /\ camUp = "Y"
    /\ elapsed = 0
    /\ planetPos = UnmountedPlanetPos
    /\ planetRot = UnmountedPlanetRot
    /\ meshT = NotRead
    /\ rendered = {}
    /\ earthSun = [earth |-> Zero3, rot |-> 0]
    /\ moonSun = [earth |-> Zero3, angle |-> 0]
    /\ frameNo = 0
    /\ events = 0
    /\ lastDelta = 0
    /\ lastTrack = NoTrack
    /\ lastBranch = "none"
    /\ sinceChange = 0
    /\ trip = "none"

Init ==
    /\ TexturesLoaded
    /\ QuizUnmounted
    /\ LabStart
    /\ ShaderIdle
    /\ CommandUnmounted
    /\ SceneStart

\* Earth3D is mounted for the first time: no planet texture was asked for
InitLoad ==
    /\ TexturesIdle
    /\ QuizUnmounted
    /\ LabStart
    /\ ShaderIdle
    /\ CommandUnmounted
    /\ SceneStart


----------------------------------------------------------------------------
(* Props of HeliocentricSystem change: React renders it again, runs the     *)
(* cleanup of the effect of line 729 (clearTimeout, line 753) and the       *)
(* effect itself, whose dependencies are [viewMode, focusedPlanet].  A set  *)
(* state that changes neither value renders nothing.  The two setters of a  *)
(* click handler are batched into one render.                               *)

\* return () => clearTimeout(timer), line 753: the cleanup of the effect
\* clears the timer its last run has set
ClearTimeoutMissing(ts) == ts
ClearTimeout(ts) == IF ts = << >> THEN ts ELSE SubSeq(ts, 1, Len(ts) - 1)

\* lines 729-733 and 753: the cleanup, then the lock is taken and a timer set
EffectLock ==
    /\ isTransitioning' = TRUE
    /\ timers' = Append(ClearTimeout(timers), TRANSITION_MS)
    /\ sinceChange' = 0

\* useRef, lines 704-705: a ref keeps its value when the component renders again
RefsReinitialised == orbitAngle' = 0 /\ prevEarthPos' = EarthStart
RefsKept == UNCHANGED << orbitAngle, prevEarthPos >>

\* line 900: {viewMode === 'SOLAR_SYSTEM' && <SolarSystem />}
SolarSystemAlways(vm) == TRUE
SolarSystemIncluded(vm) == vm = "SOLAR_SYSTEM"

PropsChange(vm, fp) ==
    /\ << vm, fp >> # << viewMode, focusedPlanet >>
    /\ viewMode' = vm
    /\ focusedPlanet' = fp
    /\ EffectLock
    \* lines 981-1011: the camera of the other branch is mounted afresh
    /\ IF OrbitCameraMode(vm) # OrbitCameraMode(viewMode)
       THEN /\ camPos' = FreshCamPos(vm)
            /\ camTarget' = IF OrbitCameraMode(vm) THEN Zero3
                            ELSE VAdd(FreshCamPos(vm), Vec(0, 0, -10))
            /\ camUp' = "Y"
       ELSE UNCHANGED camVars
    \* line 900: <SolarSystem /> is mounted and unmounted with SOLAR_SYSTEM
    /\ IF SolarSystemIncluded(vm) # SolarSystemIncluded(viewMode)
       THEN /\ planetPos' = UnmountedPlanetPos
            /\ planetRot' = UnmountedPlanetRot
            /\ meshT' = NotRead
       ELSE UNCHANGED << planetPos, planetRot, meshT >>
    /\ rendered' = IF SolarSystemIncluded(vm) THEN PlanetNames ELSE {}
    /\ RefsKept
    /\ trip' = IF vm = "SOLAR_SYSTEM" /\ fp = "Earth" THEN "focusEarth"
               ELSE IF vm = "EARTH_FREE" /\ trip = "focusEarth" THEN "back"
               ELSE "none"
    /\ UNCHANGED << earthRot, cloudsRot, moonAngle, earthPos, earthSun, moonSun,
                    frameVars >>

\* onClick of a mode button, lines 1041, 1048, 1055 and 1062:
\* setViewMode(m); setFocusedPlanet(null)
ModeButtonKeepFocus(m, vm, fp) == << m, fp >>
ModeButton(m, vm, fp) == << m, NoFocus >>

\* onClick of a planet button and of Overview, lines 1077 and 1084
FocusButton(f, vm, fp) == << vm, f >>

\* A mode button of Earth3D is pressed
ClickMode(m) ==
    /\ frameNo + events < MaxSteps
    /\ events' = events + 1
    /\ LET to == ModeButton(m, viewMode, focusedPlanet)
       IN  PropsChange(to[1], to[2])

\* A button of the planet selector, rendered in SOLAR_SYSTEM only, lines 1071-1089
ClickFocus(fp) ==
    /\ viewMode = "SOLAR_SYSTEM"
    /\ frameNo + events < MaxSteps
    /\ events' = events + 1
    /\ LET to == FocusButton(fp, viewMode, focusedPlanet)
       IN  PropsChange(to[1], to[2])

(* The user pans with OrbitControls (enablePan, lines 987-1001): camera and *)
(* target are moved together.                                              *)
UserPans == {Vec(4000, 0, 0)}

UserPan(v) ==
    /\ OrbitCameraMode(viewMode)
    /\ frameNo + events < MaxSteps
    /\ events' = events + 1
    /\ camPos' = VAdd(camPos, v)
    /\ camTarget' = VAdd(camTarget, v)
    /\ UNCHANGED << camUp, uiVars, lockVars, earthVars, planetVars, frameVars, trip >>

----------------------------------------------------------------------------
(* The timer of line 733 runs, lines 734-750 *)

EarthFreeStart == Vec(0, 60, 180)
SolarSystemStart == Vec(0, 4000, 6000)

TimerFire ==
    /\ \E i \in DOMAIN timers :
         /\ timers[i] = 0
         /\ timers' = SubSeq(timers, 1, i - 1) \o SubSeq(timers, i + 1, Len(timers))
    /\ isTransitioning' = FALSE
    /\ IF OrbitCameraMode(viewMode)      \* cameraRef.current && controlsRef.current
       THEN LET snapped ==
                    IF viewMode = "EARTH_FREE"
                    THEN << VAdd(earthPos, EarthFreeStart), earthPos >>
                    ELSE IF viewMode = "SOLAR_SYSTEM" /\ focusedPlanet = NoFocus
                    THEN << SolarSystemStart, Zero3 >>
                    ELSE << camPos, camTarget >>
            IN  /\ camTarget' = snapped[2]
                /\ camPos' = ControlsUpdate(snapped[1], snapped[2], viewMode, focusedPlanet)
                /\ UNCHANGED camUp
       ELSE UNCHANGED camVars
    /\ UNCHANGED << uiVars, earthVars, planetVars, frameVars, events, sinceChange, trip >>

\* Wall time passes with no frame rendered, until the timer is due
TimePasses ==
    /\ \E i \in DOMAIN timers : timers[i] > 0
    /\ timers' = [i \in DOMAIN timers |-> 0]
    /\ sinceChange' = TRANSITION_MS
    /\ UNCHANGED << isTransitioning, uiVars, earthVars, camVars, planetVars,
                    frameVars, events, trip >>

----------------------------------------------------------------------------
(* One rendered frame: the useFrame callbacks of MoonMesh (lines 452-467),  *)
(* HeliocentricSystem (lines 756-895) and, while <SolarSystem /> is         *)
(* mounted, of the seven PlanetMesh (lines 619-638), all called with the    *)
(* same raw delta.                                                          *)
(*                                                                          *)
(* state.clock is a THREE.Clock.  The frame loop calls getDelta() once per  *)
(* frame, which adds the raw delta to elapsedTime and hands it to every     *)
(* callback.  getElapsedTime() calls getDelta() again: each call reads the  *)
(* wall clock and adds what has passed since the previous read.  So the     *)
(* reads of the focus tracker (line 803) and of the PlanetMesh callbacks    *)
(* (line 622) in one frame are two reads, skew apart.  The first read of a  *)
(* frame is taken to return the time of the frame loop's own getDelta(),    *)
(* and the callbacks of the seven PlanetMesh to read at one instant.        *)

\* lines 793-811: targetPos and targetRadius of the focused body
TrackTargetDefault(fp, currentEarthPos, t) ==
    IF fp = "Earth"
    THEN [found |-> TRUE, pos |-> currentEarthPos, radius |-> EARTH_RADIUS]
    ELSE IF fp \in PlanetNames
    THEN [found |-> TRUE, pos |-> TrackerPos(fp, t), radius |-> PLANETS[fp].radius]
    ELSE [found |-> TRUE, pos |-> Zero3, radius |-> 50]
TrackTarget(fp, currentEarthPos, t) ==
    IF fp = "Earth"
    THEN [found |-> TRUE, pos |-> currentEarthPos, radius |-> EARTH_RADIUS]
    ELSE IF fp \in PlanetNames
    THEN [found |-> TRUE, pos |-> TrackerPos(fp, t), radius |-> PLANETS[fp].radius]
    ELSE [found |-> FALSE, pos |-> Zero3, radius |-> 50]

\* lines 813-831: the camera and the target follow targetPos
TrackCameraSnap(cam, tgt, tr, vm, fp) ==
    LET offset == VSub(cam, tgt)
        idealDist == tr.radius * 6 + 100
        offset1 == IF LenSq(offset) > (idealDist * 2) * (idealDist * 2)
                   THEN SetLength(offset, idealDist)
                   ELSE offset
    IN  [pos |-> ControlsUpdate(VAdd(tr.pos, offset1), tr.pos, vm, fp),
         target |-> tr.pos, up |-> "Y"]
TrackCamera(cam, tgt, tr, vm, fp) ==
    LET tgt1 == Lerp(tgt, tr.pos, 10)
        offset == VSub(cam, tgt1)
        idealDist == tr.radius * 6 + 100
        offset1 == IF LenSq(offset) > (idealDist * 2) * (idealDist * 2)
                   THEN SetLength(offset, idealDist)
                   ELSE offset
        cam1 == Lerp(cam, VAdd(tr.pos, offset1), 10)
    IN  [pos |-> ControlsUpdate(cam1, tgt1, vm, fp), target |-> tgt1, up |-> "Y"]

\* lines 777-790: the camera follows the Earth; the drift guard
EarthFreeResnap == Vec(0, 100, 400)

FollowEarthCameraOnly(cam, tgt, posDelta, currentEarthPos) ==
    LET cam1 == VAdd(cam, posDelta)
    IN  IF DistSq(cam1, currentEarthPos) > DRIFT_LIMIT * DRIFT_LIMIT
        THEN [pos |-> VAdd(currentEarthPos, EarthFreeResnap),
              target |-> currentEarthPos, up |-> "Y"]
        ELSE [pos |-> cam1, target |-> tgt, up |-> "Y"]
FollowEarthNoGuard(cam, tgt, posDelta, currentEarthPos) ==
    [pos |-> VAdd(cam, posDelta), target |-> VAdd(tgt, posDelta), up |-> "Y"]
FollowEarth(cam, tgt, posDelta, currentEarthPos) ==
    LET cam1 == VAdd(cam, posDelta)
        tgt1 == VAdd(tgt, posDelta)
    IN  IF DistSq(cam1, currentEarthPos) > DRIFT_LIMIT * DRIFT_LIMIT
        THEN [pos |-> VAdd(currentEarthPos, EarthFreeResnap),
              target |-> currentEarthPos, up |-> "Y"]
        ELSE [pos |-> cam1, target |-> tgt1, up |-> "Y"]

\* lines 855-891: the cinematic and fixed modes; t is the elapsed time read
FixedCamera(vm, cam, currentEarthPos, t) ==
    LET sunDirection == SetLength(VSub(Zero3, currentEarthPos), 350)
    IN  CASE vm = "SYSTEM_AUTO" ->
               [pos |-> Lerp(cam,
                             Vec(-FOCAL_OFFSET + RoundDiv(3500 * Cos(t), TrigScale),
                                 1000 + RoundDiv(400 * Sin(t), TrigScale),
                                 RoundDiv(3500 * Sin(2 * t), TrigScale)),
                             20),
                target |-> Vec(-FOCAL_OFFSET, 0, 0), up |-> camUp]
          [] vm = "SYSTEM_TOP" ->
               [pos |-> Lerp(cam, Vec(-FOCAL_OFFSET, 6000, 0), 20),
                target |-> Vec(-FOCAL_OFFSET, 0, 0), up |-> "-Z"]
          [] vm = "EARTH_DAY" ->
               [pos |-> VAdd(VAdd(currentEarthPos, sunDirection), Vec(0, 50, 0)),
                target |-> currentEarthPos, up |-> "Y"]
          [] vm = "EARTH_NIGHT" ->
               [pos |-> VAdd(VSub(currentEarthPos, sunDirection), Vec(0, 50, 0)),
                target |-> currentEarthPos, up |-> "Y"]

\* line 777: the follow of EARTH_FREE is skipped while the lock is held
FollowGuard(vm, locked) == vm = "EARTH_FREE" /\ ~locked

\* lines 776-832 and 854-891: what the callback of HeliocentricSystem does
\* to the camera
CameraStep(vm, fp, locked, cam, tgt, up, posDelta, currentEarthPos, t) ==
    IF FollowGuard(vm, locked)
    THEN FollowEarth(cam, tgt, posDelta, currentEarthPos)
    ELSE IF vm = "SOLAR_SYSTEM" /\ fp # NoFocus
    THEN LET tr == TrackTarget(fp, currentEarthPos, t)
         IN  IF tr.found THEN TrackCamera(cam, tgt, tr, vm, fp)
             ELSE [pos |-> cam, target |-> tgt, up |-> up]
    ELSE IF vm # "EARTH_FREE" /\ vm # "SOLAR_SYSTEM"
    THEN FixedCamera(vm, cam, currentEarthPos, t)
    ELSE [pos |-> cam, target |-> tgt, up |-> up]

\* The branch of lines 776-891 the callback takes
CameraBranch(vm, fp, locked, cam, posDelta, currentEarthPos, t) ==
    IF FollowGuard(vm, locked)
    THEN IF DistSq(VAdd(cam, posDelta), currentEarthPos) > DRIFT_LIMIT * DRIFT_LIMIT
         THEN "resnap" ELSE "follow"
    ELSE IF vm = "SOLAR_SYSTEM" /\ fp # NoFocus
    THEN IF TrackTarget(fp, currentEarthPos, t).found THEN "track" ELSE "none"
    ELSE IF vm # "EARTH_FREE" /\ vm # "SOLAR_SYSTEM"
    THEN "fixed"
    ELSE "none"

Frame(delta, skew) ==
    /\ frameNo + events < MaxSteps
    /\ skew # 0 => viewMode = "SOLAR_SYSTEM" /\ focusedPlanet \in PlanetNames
    /\ LET safeDelta == SafeDelta(delta)
           tHelio == elapsed + delta
           tMesh == tHelio + skew
           angle == orbitAngle + safeDelta * EARTH_YEAR_SPEED
           currentEarthPos == EarthOrbitPos(angle)
           posDelta == VSub(currentEarthPos, prevEarthPos)
           cam == CameraStep(viewMode, focusedPlanet, isTransitioning,
                             camPos, camTarget, camUp, posDelta, currentEarthPos, tHelio)
       IN  \* MoonMesh, which is subscribed before its parent
           /\ moonAngle' = moonAngle + safeDelta * MOON_ORBIT_SPEED
           /\ moonSun' = [earth |-> earthPos, angle |-> moonAngle']
           \* HeliocentricSystem
           /\ orbitAngle' = angle
           /\ earthPos' = currentEarthPos
           /\ camPos' = cam.pos
           /\ camTarget' = cam.target
           /\ camUp' = cam.up
           /\ earthRot' = earthRot + safeDelta * EARTH_ROTATION_SPEED
           /\ cloudsRot' = cloudsRot + safeDelta * CLOUD_ROTATION_SPEED
           /\ earthSun' = [earth |-> currentEarthPos, rot |-> earthRot']
           /\ prevEarthPos' = currentEarthPos
           /\ lastBranch' = CameraBranch(viewMode, focusedPlanet, isTransitioning,
                                         camPos, posDelta, currentEarthPos, tHelio)
           /\ lastTrack' =
                IF viewMode = "SOLAR_SYSTEM" /\ focusedPlanet # NoFocus
                THEN LET tr == TrackTarget(focusedPlanet, currentEarthPos, tHelio)
                     IN  [name |-> focusedPlanet, found |-> tr.found, pos |-> tr.pos]
                ELSE NoTrack
           \* PlanetMesh, mounted in SOLAR_SYSTEM
           /\ UNCHANGED rendered
           /\ IF rendered # {}
              THEN /\ planetPos' = [p \in PlanetNames |-> PlanetMeshPos(p, tMesh)]
                   /\ planetRot' = [p \in PlanetNames |->
                                       planetRot[p] + RotationAdvance(p, delta)]
                   /\ meshT' = tMesh
              ELSE UNCHANGED << planetPos, planetRot, meshT >>
           \* the clock and the wall time
           /\ elapsed' = tMesh
           /\ timers' = [i \in DOMAIN timers |-> Max(0, timers[i] - delta)]
           /\ sinceChange' = Min(TRANSITION_MS, sinceChange + delta)
    /\ frameNo' = frameNo + 1
    /\ lastDelta' = delta
    /\ UNCHANGED << uiVars, isTransitioning, events, trip >>

----------------------------------------------------------------------------
(* Earth3D: the scene under the controls of lines 1039-1090 *)

\* What the scene with its textures loaded leaves alone
offScene == << loadVars, quizVars, labVars, shaderVars, commandVars >>

Next ==
    \/ \E m \in ModeButtons : ClickMode(m) /\ UNCHANGED offScene
    \/ \E fp \in FocusChoices \cup {NoFocus} : ClickFocus(fp) /\ UNCHANGED offScene
    \/ \E v \in UserPans : UserPan(v) /\ UNCHANGED offScene
    \/ TimerFire /\ UNCHANGED offScene
    \/ TimePasses /\ UNCHANGED offScene
    \/ \E delta \in Deltas, skew \in Skews : Frame(delta, skew) /\ UNCHANGED offScene

Spec == Init /\ [][Next]_vars


----------------------------------------------------------------------------
(* HeliocentricSystem under any parent: the props interface of lines        *)
(* 680-685 takes any ViewMode and any string or null                        *)

\* The props the model passes: a focus name that is no body, and the two
\* view modes no control of Earth3D selects
PropsChoices ==
    { << "SOLAR_SYSTEM", "Pluto" >>, << "EARTH_FREE", NoFocus >>,
      << "SYSTEM_TOP", NoFocus >>, << "SYSTEM_AUTO", NoFocus >> }

SetProps(vm, fp) ==
    /\ frameNo + events < MaxSteps
    /\ events' = events + 1
    /\ PropsChange(vm, fp)

NextProps ==
    \/ \E pr \in PropsChoices : SetProps(pr[1], pr[2]) /\ UNCHANGED offScene
    \/ TimerFire /\ UNCHANGED offScene
    \/ TimePasses /\ UNCHANGED offScene
    \/ \E delta \in Deltas, skew \in Skews : Frame(delta, skew) /\ UNCHANGED offScene

SpecProps == Init /\ [][NextProps]_vars

----------------------------------------------------------------------------
(* The camera state machine of the controls *)

\* The seven modes of the camera controller, as the props select them
\* (the branches of lines 777, 791 and 855-890)
CameraModes ==
    {"FreeEarth", "ChaseDay", "ChaseNight", "TopDown", "CinematicSweep",
     "FreeSystem", "PlanetFocus"}

CameraMode(vm, fp) ==
    CASE vm = "EARTH_FREE" -> "FreeEarth"
      [] vm = "EARTH_DAY" -> "ChaseDay"
      [] vm = "EARTH_NIGHT" -> "ChaseNight"
      [] vm = "SYSTEM_TOP" -> "TopDown"
      [] vm = "SYSTEM_AUTO" -> "CinematicSweep"
      [] vm = "SOLAR_SYSTEM" -> IF fp = NoFocus THEN "FreeSystem" ELSE "PlanetFocus"

\* The states one press of a control of Earth3D leads to, lines 1040-1089
UIClicks(st) ==
    { ModeButton(m, st[1], st[2]) : m \in ModeButtons }
    \cup (IF st[1] = "SOLAR_SYSTEM"
          THEN { FocusButton(f, st[1], st[2]) : f \in FocusNames \cup {NoFocus} }
          ELSE {})

RECURSIVE UIReach(_)
UIReach(S) ==
    LET T == S \cup UNION { UIClicks(st) : st \in S }
    IN  IF T = S THEN S ELSE UIReach(T)


----------------------------------------------------------------------------
(* Earth3D with the planet textures loading: the <Suspense> of lines        *)
(* 1025-1035 around HeliocentricSystem, and useLoader of line 607 in each   *)
(* PlanetMesh                                                               *)

\* The planets whose texture request the model lets fail
FailChoices == {"Mercury", "Neptune"}

\* Clicks and frames of one run with the textures loading
MaxLoadSteps == 3

\* The raw frame delta of the runs with the textures loading, in milliseconds
LoadDelta == 50

\* Everything of the scene but the count of user events
sceneRest ==
    << uiVars, lockVars, earthVars, camVars, planetVars, frameVars, trip >>

\* The scene is rendered and committed with the state st of Earth3D
Commit(st) ==
    IF st = << viewMode, focusedPlanet >>
    THEN UNCHANGED sceneRest
    ELSE PropsChange(st[1], st[2])

(* Earth3D renders with the state st, lines 1022-1036.  With <SolarSystem /> *)
(* included each PlanetMesh calls useLoader (line 607): a failed texture     *)
(* throws, a texture not yet loaded is requested and suspends the render,    *)
(* and otherwise the scene is committed.                                     *)
Render(st) ==
    IF SolarSystemIncluded(st[1]) /\ \E p \in PlanetNames : texture[p] = "failed"
    THEN /\ canvas' = Crashed
         /\ rendered' = {}
         /\ UNCHANGED << texture, uiVars, lockVars, earthVars, camVars,
                         planetPos, planetRot, meshT, frameVars, trip >>
    ELSE IF SolarSystemIncluded(st[1]) /\ \E p \in PlanetNames : texture[p] # "loaded"
    THEN /\ canvas' = Suspended(st)
         /\ texture' = [p \in PlanetNames |->
                           IF texture[p] = "idle" THEN "pending" ELSE texture[p]]
         /\ UNCHANGED sceneRest
    ELSE /\ canvas' = Shown
         /\ UNCHANGED texture
         /\ Commit(st)

\* A mode button of Earth3D is pressed, lines 1041, 1048, 1055 and 1062
LoadClickMode(m) ==
    /\ canvas # Crashed
    /\ frameNo + events < MaxLoadSteps
    /\ events' = events + 1
    /\ LET to == ModeButton(m, UIState[1], UIState[2])
       IN  /\ to # UIState
           /\ Render(to)

\* A button of the planet selector is pressed, lines 1071-1089
LoadClickFocus(fp) ==
    /\ canvas # Crashed
    /\ UIState[1] = "SOLAR_SYSTEM"
    /\ frameNo + events < MaxLoadSteps
    /\ events' = events + 1
    /\ LET to == FocusButton(fp, UIState[1], UIState[2])
       IN  /\ to # UIState
           /\ Render(to)

(* The request of p's texture completes.  The suspended render is tried     *)
(* again: it is committed once no texture is pending.                       *)
TextureLoaded(p) ==
    /\ canvas # Crashed
    /\ texture[p] = "pending"
    /\ texture' = [texture EXCEPT ![p] = "loaded"]
    /\ UNCHANGED events
    /\ IF canvas.state = "suspended" /\ \A q \in PlanetNames : texture'[q] = "loaded"
       THEN /\ canvas' = Shown
            /\ Commit(canvas.ui)
       ELSE UNCHANGED << canvas, sceneRest >>

(* The request of p's texture fails.  The suspended render is tried again   *)
(* and useLoader throws; with the scene of another mode on display the      *)
(* failure stays in the cache until <SolarSystem /> is rendered again.      *)
TextureFailed(p) ==
    /\ canvas # Crashed
    /\ texture[p] = "pending"
    /\ texture' = [texture EXCEPT ![p] = "failed"]
    /\ UNCHANGED events
    /\ IF canvas.state = "suspended"
       THEN /\ canvas' = Crashed
            /\ rendered' = {}
            /\ UNCHANGED << uiVars, lockVars, earthVars, camVars,
                            planetPos, planetRot, meshT, frameVars, trip >>
       ELSE UNCHANGED << canvas, sceneRest >>

(* The timer of line 733 runs while the fallback is on display and the refs *)
(* of the hidden scene are detached: the guard of line 735 fails.           *)
TimerFireDetached ==
    /\ canvas.state = "suspended"
    /\ \E i \in DOMAIN timers :
         /\ timers[i] = 0
         /\ timers' = SubSeq(timers, 1, i - 1) \o SubSeq(timers, i + 1, Len(timers))
    /\ isTransitioning' = FALSE
    /\ UNCHANGED << uiVars, earthVars, camVars, planetVars, frameVars, events,
                    sinceChange, trip >>

offLoad == << quizVars, labVars, shaderVars, commandVars >>

NextLoad ==
    \/ \E m \in ModeButtons : LoadClickMode(m) /\ UNCHANGED offLoad
    \/ \E fp \in FocusChoices \cup {NoFocus} : LoadClickFocus(fp) /\ UNCHANGED offLoad
    \/ \E p \in PlanetNames : TextureLoaded(p) /\ UNCHANGED offLoad
    \/ \E p \in FailChoices : TextureFailed(p) /\ UNCHANGED offLoad
    \/ canvas # Crashed /\ TimerFire /\ UNCHANGED offScene
    \/ TimerFireDetached /\ UNCHANGED offScene
    \/ canvas # Crashed /\ TimePasses /\ UNCHANGED offScene
    \/ /\ canvas # Crashed
       /\ frameNo + events < MaxLoadSteps
       /\ Frame(LoadDelta, 0)
       /\ UNCHANGED offScene

SpecLoad == InitLoad /\ [][NextLoad]_vars

----------------------------------------------------------------------------
(* The content service, src/services/geminiService.ts.  A string is the     *)
(* sequence of its characters.                                              *)

Question(q, opts, answer) ==
    [question |-> q, options |-> opts, correctAnswerIndex |-> answer]

\* lines 14-33
DEFAULT_QUESTIONS ==
    << Question("What is the primary reason for Earth's seasons?",
                << "Distance from the Sun", "Axial Tilt (23.5)", "Solar Flares",
                   "The Moon's orbit" >>, 1),
       Question("Approximately how long does it take for Earth to complete one revolution around the Sun?",
                << "24 hours", "30 days", "365.25 days", "10 years" >>, 2),
       Question("Which motion causes day and night?",
                << "Revolution", "Rotation", "Precession", "Gravitation" >>, 1) >>

\* lines 35-54
KAAMOS_QUESTIONS ==
    << Question("What is 'Kaamos'?",
                << "A type of snow", "Polar Night (Sun doesn't rise)",
                   "The Northern Lights", "Midsummer Festival" >>, 1),
       Question("Where can you experience the Midnight Sun?",
                << "At the Equator", "Anywhere in Europe",
                   "North of the Arctic Circle", "Only at the South Pole" >>, 2),
       Question("In Rovaniemi (Arctic Circle), approximately how much sunlight is there in mid-winter?",
                << "12 hours", "Only a few hours of twilight", "24 hours",
                   "8 hours" >>, 1) >>

\* lines 56-75; SHADOW_QUESTIONS_OneBased counts the options from 1
SHADOW_QUESTIONS_OneBased ==
    << Question("When is your shadow the shortest?",
                << "Sunrise", "Noon", "Sunset", "Midnight" >>, 2),
       Question("If the Sun is low in the sky (like winter in Finland), your shadow will be:",
                << "Very short", "Very long", "Invisible",
                   "The same as your height" >>, 2),
       Question("What happens to a shadow as the light source moves higher?",
                << "It gets longer", "It gets shorter", "It disappears",
                   "It becomes wider" >>, 4) >>
SHADOW_QUESTIONS ==
    << Question("When is your shadow the shortest?",
                << "Sunrise", "Noon", "Sunset", "Midnight" >>, 1),
       Question("If the Sun is low in the sky (like winter in Finland), your shadow will be:",
                << "Very short", "Very long", "Invisible",
                   "The same as your height" >>, 1),
       Question("What happens to a shadow as the light source moves higher?",
                << "It gets longer", "It gets shorter", "It disappears",
                   "It becomes wider" >>, 1) >>

KeyKaamos == << "k", "a", "a", "m", "o", "s" >>
KeyPolar == << "p", "o", "l", "a", "r" >>
KeyShadow == << "s", "h", "a", "d", "o", "w" >>
KeyIncidence == << "i", "n", "c", "i", "d", "e", "n", "c", "e" >>
KeyDefault == << "d", "e", "f", "a", "u", "l", "t" >>

\* lines 78-85: the keys of an object are enumerated in the order they were
\* written
TOPIC_MAP ==
    << [key |-> KeyKaamos, data |-> KAAMOS_QUESTIONS],
       [key |-> KeyPolar, data |-> KAAMOS_QUESTIONS],
       [key |-> KeyShadow, data |-> SHADOW_QUESTIONS],
       [key |-> KeyIncidence, data |-> SHADOW_QUESTIONS],
       [key |-> KeyDefault, data |-> DEFAULT_QUESTIONS] >>

\* TOPIC_MAP[k], line 124 and line 127
TopicMapGet(k) == TOPIC_MAP[CHOOSE i \in DOMAIN TOPIC_MAP : TOPIC_MAP[i].key = k].data

\* lines 89-114: role and answer of each command
COMMAND_DATA ==
    << [role |-> "Earth", answer |-> "Summer"],
       [role |-> "Sun", answer |-> "The Equator"],
       [role |-> "Earth", answer |-> "Rotation (Day) and Revolution (Year)"],
       [role |-> "Observer", answer |-> "Low"] >>

\* String.prototype.toLowerCase, line 121
UpperCase ==
    << "A", "B", "C", "D", "E", "F", "G", "H", "I", "J", "K", "L", "M",
       "N", "O", "P", "Q", "R", "S", "T", "U", "V", "W", "X", "Y", "Z" >>
LowerCase ==
    << "a", "b", "c", "d", "e", "f", "g", "h", "i", "j", "k", "l", "m",
       "n", "o", "p", "q", "r", "s", "t", "u", "v", "w", "x", "y", "z" >>
ToLowerChar(c) ==
    IF \E i \in DOMAIN UpperCase : UpperCase[i] = c
    THEN LowerCase[CHOOSE i \in DOMAIN UpperCase : UpperCase[i] = c]
    ELSE c
ToLowerCaseNone(str) == str
ToLowerCase(str) == [i \in 1..Len(str) |-> ToLowerChar(str[i])]

\* String.prototype.includes, line 126
Includes(str, key) ==
    \E i \in 0..(Len(str) - Len(key)) : SubSeq(str, i + 1, i + Len(key)) = key

\* lines 124-130: the loop over the keys, left at the first key the topic holds
RECURSIVE FirstMatch(_, _, _)
FirstMatch(t, i, data) ==
    IF i > Len(TOPIC_MAP) THEN data
    ELSE IF Includes(t, TOPIC_MAP[i].key) THEN TOPIC_MAP[i].data
    ELSE FirstMatch(t, i + 1, data)

\* generateQuizQuestions, lines 120-135: the value its promise is resolved with
generateQuizQuestions(tp) ==
    FirstMatch(ToLowerCase(tp), 1, TopicMapGet(KeyDefault))

\* generateAstroCommands, lines 141-143
generateAstroCommandsNone(tp) == << >>
generateAstroCommands(tp) == COMMAND_DATA

\* A promise an async function has returned: Promise.resolve(data), lines 134
\* and 142, is fulfilled when it is made
Fulfilled(v) == [state |-> "fulfilled", value |-> v]

----------------------------------------------------------------------------
(* Topics *)

\* "Sun shadows and angle of incidence physics": ShadowLab.tsx line 85
TopicShadowLab ==
    << "S", "u", "n", " ", "s", "h", "a", "d", "o", "w", "s", " ", "a",
       "n", "d", " ", "a", "n", "g", "l", "e", " ", "o", "f", " ", "i",
       "n", "c", "i", "d", "e", "n", "c", "e", " ", "p", "h", "y", "s",
       "i", "c", "s" >>

\* "Earth's revolution around the sun and orbit": OrbitCommand.tsx line 68
TopicOrbitCommand ==
    << "E", "a", "r", "t", "h", "'", "s", " ", "r", "e", "v", "o", "l",
       "u", "t", "i", "o", "n", " ", "a", "r", "o", "u", "n", "d", " ",
       "t", "h", "e", " ", "s", "u", "n", " ", "a", "n", "d", " ", "o",
       "r", "b", "i", "t" >>

\* "Earth seasons axial tilt and solstices": App.tsx line 76
TopicSeasons ==
    << "E", "a", "r", "t", "h", " ", "s", "e", "a", "s", "o", "n", "s",
       " ", "a", "x", "i", "a", "l", " ", "t", "i", "l", "t", " ", "a",
       "n", "d", " ", "s", "o", "l", "s", "t", "i", "c", "e", "s" >>

\* "Sunlight intensity and angle of incidence": App.tsx line 95
TopicSunlight ==
    << "S", "u", "n", "l", "i", "g", "h", "t", " ", "i", "n", "t", "e",
       "n", "s", "i", "t", "y", " ", "a", "n", "d", " ", "a", "n", "g",
       "l", "e", " ", "o", "f", " ", "i", "n", "c", "i", "d", "e", "n",
       "c", "e" >>

\* "kaamos polar night": the Kaamos topic
TopicKaamos ==
    << "k", "a", "a", "m", "o", "s", " ", "p", "o", "l", "a", "r", " ",
       "n", "i", "g", "h", "t" >>

\* "unrelated xyz": no key in it
TopicUnrelated ==
    << "u", "n", "r", "e", "l", "a", "t", "e", "d", " ", "x", "y", "z" >>

\* "": the empty string
TopicEmpty ==
    << >>

\* "Midnight Sun and KAAMOS": a key in upper case
TopicUpper ==
    << "M", "i", "d", "n", "i", "g", "h", "t", " ", "S", "u", "n", " ",
       "a", "n", "d", " ", "K", "A", "A", "M", "O", "S" >>

\* "shadow of the Polar night": two keys, the later key of the map first in the topic
TopicTwoKeys ==
    << "s", "h", "a", "d", "o", "w", " ", "o", "f", " ", "t", "h", "e",
       " ", "P", "o", "l", "a", "r", " ", "n", "i", "g", "h", "t" >>

\* "the default incidence": the key default and a key before it in the map
TopicDefaultKey ==
    << "t", "h", "e", " ", "d", "e", "f", "a", "u", "l", "t", " ", "i",
       "n", "c", "i", "d", "e", "n", "c", "e" >>

\* "kaamo shado": no key in full
TopicPrefix ==
    << "k", "a", "a", "m", "o", " ", "s", "h", "a", "d", "o" >>

\* "The phenomenon of Kaamos and polar night in Finland": KaamosViewer in polar
\* night, part_000 line 136
TopicPolarNight ==
    << "T", "h", "e", " ", "p", "h", "e", "n", "o", "m", "e", "n", "o",
       "n", " ", "o", "f", " ", "K", "a", "a", "m", "o", "s", " ", "a",
       "n", "d", " ", "p", "o", "l", "a", "r", " ", "n", "i", "g", "h",
       "t", " ", "i", "n", " ", "F", "i", "n", "l", "a", "n", "d" >>

\* "The phenomenon of Midnight Sun in Finland": KaamosViewer otherwise, part_000
\* line 136
TopicMidnightSun ==
    << "T", "h", "e", " ", "p", "h", "e", "n", "o", "m", "e", "n", "o",
       "n", " ", "o", "f", " ", "M", "i", "d", "n", "i", "g", "h", "t",
       " ", "S", "u", "n", " ", "i", "n", " ", "F", "i", "n", "l", "a",
       "n", "d" >>

\* The topics the application passes, and topics that try the lookup
Topics ==
    { TopicShadowLab, TopicOrbitCommand, TopicSeasons, TopicSunlight,
      TopicPolarNight, TopicMidnightSun,
      TopicKaamos, TopicUnrelated, TopicEmpty, TopicUpper, TopicTwoKeys,
      TopicDefaultKey, TopicPrefix }

----------------------------------------------------------------------------
(* The content service under any caller: the two exported functions are    *)
(* called with a topic, and the caller awaits the promises in order.       *)

\* Promises a caller holds at a time
MaxCalls == 2

\* What the service leaves alone
offService ==
    << sceneVars, loadVars, labVars, shaderVars, commandVars,
       topic, questions, currentIndex, selectedOption, isAnswered, loading, score >>

CallQuizQuestions(tp) ==
    /\ Len(fetches) < MaxCalls
    /\ fetches' = Append(fetches,
                         [by |-> "generateQuizQuestions", topic |-> tp,
                          promise |-> Fulfilled(generateQuizQuestions(tp))])
    /\ UNCHANGED offService

CallAstroCommands(tp) ==
    /\ Len(fetches) < MaxCalls
    /\ fetches' = Append(fetches,
                         [by |-> "generateAstroCommands", topic |-> tp,
                          promise |-> Fulfilled(generateAstroCommands(tp))])
    /\ UNCHANGED offService

\* await: the continuation of the oldest promise takes its value
Await ==
    /\ fetches # << >>
    /\ Head(fetches).promise.state = "fulfilled"
    /\ fetches' = Tail(fetches)
    /\ UNCHANGED offService

NextService ==
    \/ \E tp \in Topics : CallQuizQuestions(tp)
    \/ \E tp \in Topics : CallAstroCommands(tp)
    \/ Await

SpecService == Init /\ [][NextService]_vars

----------------------------------------------------------------------------
(* QuizModule, src/components/QuizModule.tsx.  The promise of the service   *)
(* is fulfilled when it is returned, so the continuation of the await (line *)
(* 25) or of the then (line 57) is a microtask: it runs before the next     *)
(* event of the user is handled.                                            *)

\* lines 20-32: the effect of [topic]: setLoading(true) and the fetch
FetchQuestions(tp) ==
    /\ loading' = TRUE
    /\ fetches' = Append(fetches,
                         [by |-> "effect", mounted |-> TRUE,
                          promise |-> Fulfilled(generateQuizQuestions(tp))])

\* The first render of QuizModule with a topic, and its effect
QuizMount(tp) ==
    /\ topic = << >>
    /\ fetches = << >>
    /\ questions = << >>
    /\ loading = TRUE
    /\ topic' = tp
    /\ FetchQuestions(tp)
    /\ UNCHANGED << questions, currentIndex, selectedOption, isAnswered, score >>

\* The topic prop changes: the cleanup of line 31, then the effect again
TopicChange(tp) ==
    /\ fetches = << >>
    /\ topic # << >>
    /\ tp # topic
    /\ topic' = tp
    /\ FetchQuestions(tp)
    /\ UNCHANGED << questions, currentIndex, selectedOption, isAnswered, score >>

\* lines 25-28 and 57-60: the continuation of the oldest promise
FetchResolve ==
    /\ fetches # << >>
    /\ LET f == Head(fetches)
       IN  /\ f.promise.state = "fulfilled"
           /\ IF f.by = "effect" /\ ~f.mounted
              THEN UNCHANGED << questions, loading >>
              ELSE questions' = f.promise.value /\ loading' = FALSE
    /\ fetches' = Tail(fetches)
    /\ UNCHANGED << topic, currentIndex, selectedOption, isAnswered, score >>

\* line 64 and line 73: a question is on the screen
QuestionShown == ~loading /\ questions # << >>

\* const currentQ = questions[currentIndex], line 75
CurrentQ == questions[currentIndex + 1]

\* handleOptionClick without the early return of line 35 and without the
\* disabled attribute of line 117: an answered question takes clicks again
HandleOptionClickNoGuard(index) ==
    /\ fetches = << >>
    /\ QuestionShown
    /\ index \in 0..(Len(CurrentQ.options) - 1)
    /\ selectedOption' = index
    /\ isAnswered' = TRUE
    /\ score' = IF index = CurrentQ.correctAnswerIndex THEN score + 1 ELSE score
    /\ UNCHANGED << topic, questions, currentIndex, loading, fetches >>

\* handleOptionClick, lines 34-41; the button of an answered question is
\* disabled, line 117
HandleOptionClick(index) ==
    /\ fetches = << >>
    /\ QuestionShown
    /\ index \in 0..(Len(CurrentQ.options) - 1)
    /\ ~isAnswered
    /\ selectedOption' = index
    /\ isAnswered' = TRUE
    /\ score' = IF index = CurrentQ.correctAnswerIndex THEN score + 1 ELSE score
    /\ UNCHANGED << topic, questions, currentIndex, loading, fetches >>

\* nextQuestion with the first branch only: the index advances past the last
\* question and no round is started
NextQuestionNoWrap ==
    /\ fetches = << >>
    /\ QuestionShown
    /\ isAnswered
    /\ currentIndex' = currentIndex + 1
    /\ selectedOption' = NoOption
    /\ isAnswered' = FALSE
    /\ UNCHANGED << score, loading, fetches, topic, questions >>

\* nextQuestion, lines 43-62; its button is rendered once answered, line 133
NextQuestion ==
    /\ fetches = << >>
    /\ QuestionShown
    /\ isAnswered
    /\ IF currentIndex < Len(questions) - 1
       THEN /\ currentIndex' = currentIndex + 1
            /\ selectedOption' = NoOption
            /\ isAnswered' = FALSE
            /\ UNCHANGED << score, loading, fetches >>
       ELSE /\ currentIndex' = 0
            /\ selectedOption' = NoOption
            /\ isAnswered' = FALSE
            /\ score' = 0
            /\ loading' = TRUE
            /\ fetches' = Append(fetches,
                                 [by |-> "next", mounted |-> TRUE,
                                  promise |-> Fulfilled(generateQuizQuestions(topic))])
    /\ UNCHANGED << topic, questions >>

\* What QuizModule leaves alone
offQuiz == << sceneVars, loadVars, labVars, shaderVars, commandVars >>

NextQuiz ==
    \/ \E tp \in Topics : QuizMount(tp) /\ UNCHANGED offQuiz
    \/ \E tp \in Topics : TopicChange(tp) /\ UNCHANGED offQuiz
    \/ FetchResolve /\ UNCHANGED offQuiz
    \/ \E index \in 0..3 : HandleOptionClick(index) /\ UNCHANGED offQuiz
    \/ NextQuestion /\ UNCHANGED offQuiz

SpecQuiz == Init /\ [][NextQuiz]_vars

----------------------------------------------------------------------------
(* ShadowLab, src/components/activities/ShadowLab.tsx.  Lengths are in      *)
(* hundredths of a pixel.                                                   *)

SLIDER_MIN == 5
SLIDER_MAX == 90
OBJECT_HEIGHT == 100
CAP_ALTITUDE == 5
MAX_SHADOW == 600
LengthScale == 100

\* line 16: (sunHeight * Math.PI) / 180, in 1/10000 rad
AngleRadNoConversion(deg) == deg * TrigScale
AngleRad(deg) == RoundDiv(deg * Pi, 180)

\* lines 17-19.  Math.tan of a double is finite and, on (0, pi/2], positive
\* (pi/2 is no double), so 100 / Math.tan(x) is taken as 100 * cos(x) / sin(x);
\* at 0 the quotient is Infinity and line 19 replaces it.
ShadowLength(h) ==
    IF h <= CAP_ALTITUDE THEN MAX_SHADOW * LengthScale
    ELSE RoundDiv(OBJECT_HEIGHT * LengthScale * Cos(AngleRad(h)), Sin(AngleRad(h)))

\* onChange of the slider, lines 61-68: an integer of [min, max]
SetSunHeight(h) ==
    /\ h \in SLIDER_MIN..SLIDER_MAX
    /\ sunHeight' = h

\* What ShadowLab and its QuizModule leave alone
offLab == << sceneVars, loadVars, shaderVars, commandVars >>

\* ShadowLab with the QuizModule of line 85
NextShadowLab ==
    \/ \E h \in SLIDER_MIN..SLIDER_MAX : SetSunHeight(h) /\ UNCHANGED << offLab, quizVars >>
    \/ QuizMount(TopicShadowLab) /\ UNCHANGED << offLab, labVars >>
    \/ FetchResolve /\ UNCHANGED << offLab, labVars >>
    \/ \E index \in 0..3 : HandleOptionClick(index) /\ UNCHANGED << offLab, labVars >>
    \/ NextQuestion /\ UNCHANGED << offLab, labVars >>

SpecShadowLab == Init /\ [][NextShadowLab]_vars

----------------------------------------------------------------------------
(* OrbitCommand, src/components/activities/OrbitCommand.tsx.  App mounts it *)
(* with the mode the user chose (App.tsx lines 34, 42 and 56).  React       *)
(* commits the first render and runs the effect of lines 26-30 after the    *)
(* commit; an event is handled only after the effects of the commits        *)
(* before it have run and the promise continuations due have been taken.    *)

GameModes == {"SOLO", "GROUP"}

\* "Earth's orbit, revolution, and seasons", line 19
TopicMissions ==
    << "E", "a", "r", "t", "h", "'", "s", " ", "o", "r", "b", "i", "t", ",", " ",
       "r", "e", "v", "o", "l", "u", "t", "i", "o", "n", ",", " ",
       "a", "n", "d", " ", "s", "e", "a", "s", "o", "n", "s" >>

\* The first render of OrbitCommand is committed: the state of lines 13-15,
\* and in SOLO mode the QuizModule of line 68 with it
OrbitMount(m) ==
    /\ mode = "none"
    /\ mode' = m
    /\ commands' = << >>
    /\ commandsLoading' = FALSE
    /\ commandIndex' = 0
    /\ commandFetches' = << >>
    /\ effectPending' = TRUE
    /\ IF m = "SOLO" THEN QuizMount(TopicOrbitCommand) ELSE UNCHANGED quizVars

\* fetchCommands up to its await, lines 18-19
FetchCommands ==
    /\ commandsLoading' = TRUE
    /\ commandFetches' =
          Append(commandFetches, Fulfilled(generateAstroCommands(TopicMissions)))
    /\ UNCHANGED << mode, commands, commandIndex >>

\* The effect of lines 26-30 runs after the commit
OrbitEffect ==
    /\ effectPending
    /\ effectPending' = FALSE
    /\ IF mode = "GROUP"
       THEN FetchCommands
       ELSE UNCHANGED << mode, commands, commandsLoading, commandIndex, commandFetches >>

\* fetchCommands after its await, lines 20-22
CommandsResolve ==
    /\ ~effectPending
    /\ commandFetches # << >>
    /\ Head(commandFetches).state = "fulfilled"
    /\ commands' = Head(commandFetches).value
    /\ commandIndex' = 0
    /\ commandsLoading' = FALSE
    /\ commandFetches' = Tail(commandFetches)
    /\ UNCHANGED << mode, effectPending >>

\* lines 87-140: what OrbitCommand shows in GROUP mode
CommandView ==
    IF commandsLoading THEN "loading"
    ELSE IF Len(commands) > 0 THEN "mission"
    ELSE "failed"

\* An event of the GROUP view can be handled
GroupIdle == mode = "GROUP" /\ ~effectPending /\ commandFetches = << >>

\* onClick={fetchCommands} of New Missions (line 120) and of Retry (line 138)
ClickFetchCommands ==
    /\ GroupIdle
    /\ CommandView \in {"mission", "failed"}
    /\ FetchCommands
    /\ UNCHANGED effectPending

\* onClick of Next Order, line 127
NextOrder ==
    /\ GroupIdle
    /\ CommandView = "mission"
    /\ commandIndex' = (commandIndex + 1) % Len(commands)
    /\ UNCHANGED << mode, commands, commandsLoading, commandFetches, effectPending >>

\* An event of the SOLO view, lines 32-72, can be handled
SoloIdle == mode = "SOLO" /\ ~effectPending

\* What OrbitCommand and the components it renders leave alone
offCommand == << loadVars, labVars, shaderVars >>

\* OrbitCommand with the mode buttons of the Earth3D of line 49 and the
\* QuizModule of line 68
NextOrbitCommand ==
    \/ \E m \in GameModes : OrbitMount(m) /\ UNCHANGED << offCommand, sceneVars >>
    \/ OrbitEffect /\ UNCHANGED << offCommand, sceneVars, quizVars >>
    \/ CommandsResolve /\ UNCHANGED << offCommand, sceneVars, quizVars >>
    \/ ClickFetchCommands /\ UNCHANGED << offCommand, sceneVars, quizVars >>
    \/ NextOrder /\ UNCHANGED << offCommand, sceneVars, quizVars >>
    \/ SoloIdle /\ FetchResolve /\ UNCHANGED << offCommand, sceneVars, commandVars >>
    \/ SoloIdle /\ (\E index \in 0..3 : HandleOptionClick(index))
         /\ UNCHANGED << offCommand, sceneVars, commandVars >>
    \/ SoloIdle /\ NextQuestion /\ UNCHANGED << offCommand, sceneVars, commandVars >>
    \/ SoloIdle /\ (\E m \in ModeButtons : ClickMode(m)) /\ UNCHANGED offScene
    \/ SoloIdle /\ TimePasses /\ UNCHANGED offScene
    \/ SoloIdle /\ TimerFire /\ UNCHANGED offScene

SpecOrbitCommand == Init /\ [][NextOrbitCommand]_vars

----------------------------------------------------------------------------
(* The day/night blend of the fragment shaders, lines 148-182 and 211-260.  *)
(* dot(normal, sunDir) of two unit vectors lies in [-1, 1]; it is held in   *)
(* thousandths, the blend factor in 1/10^9.                                 *)

DotScale == 1000
DotRange == (-DotScale)..DotScale
\* 1.0 of the blend factor
One == DotScale * DotScale * DotScale

\* the edges of smoothstep: 0.2, line 229, and 0.02, line 161
EARTH_EDGE == 200
MOON_EDGE == 20

\* GLSL step(edge, x): 0 below the edge, 1 from it on
StepAt(edge0, edge1, x) == IF 2 * x < edge0 + edge1 THEN 0 ELSE One

\* GLSL smoothstep(edge0, edge1, x):
\* t = clamp((x - edge0) / (edge1 - edge0), 0, 1); t * t * (3 - 2 * t)
Smoothstep(edge0, edge1, x) ==
    LET t == Max(0, Min(DotScale, RoundDiv((x - edge0) * DotScale, edge1 - edge0)))
    IN  t * t * (3 * DotScale - 2 * t)

\* line 229: float dayFactor = smoothstep(-0.2, 0.2, dotProd)
EarthDayFactor(x) == Smoothstep(-EARTH_EDGE, EARTH_EDGE, x)

\* line 161: float dayFactor = smoothstep(-0.02, 0.02, dotProd)
MoonDayFactor(x) == Smoothstep(-MOON_EDGE, MOON_EDGE, x)

\* The steps of the dot product from one fragment to the next, in thousandths
DotSteps == {1, 50}

\* The shaders run on a fragment
Shade(d) ==
    /\ d \in DotRange
    /\ dotProd' = d
    /\ UNCHANGED << sceneVars, loadVars, quizVars, labVars, commandVars >>

NextShader ==
    \/ \E st \in DotSteps : Shade(dotProd + st)
    \/ \E st \in DotSteps : Shade(dotProd - st)

SpecShader == Init /\ [][NextShader]_vars

----------------------------------------------------------------------------
(* Claims *)

\* The browser runs a timer callback that is due, and time goes on.
SpecLive ==
    /\ Spec
    /\ WF_vars(TimerFire /\ UNCHANGED offScene)
    /\ WF_vars(TimePasses /\ UNCHANGED offScene)

IsFrame == frameNo' # frameNo
IsChange == << viewMode, focusedPlanet >>' # << viewMode, focusedPlanet >>
IsRelease == isTransitioning /\ ~isTransitioning'

\* C1: in every frame the Earth's orbit angle, the Earth's rotation and the
\* Moon's orbit angle advance by min(delta, 0.05) times their speed, so a raw
\* delta above the cap advances them as a delta of exactly the cap does.
C1_ClampedAdvance ==
    [][IsFrame =>
         LET capped == IF lastDelta' > DELTA_CAP THEN DELTA_CAP ELSE lastDelta'
         IN  /\ orbitAngle' - orbitAngle = capped * EARTH_YEAR_SPEED
             /\ earthRot' - earthRot = capped * EARTH_ROTATION_SPEED
             /\ moonAngle' - moonAngle = capped * MOON_ORBIT_SPEED]_vars

C1_Witness ==
    /\ frameNo = 1
    /\ lastDelta > DELTA_CAP
    /\ orbitAngle = DELTA_CAP * EARTH_YEAR_SPEED
    /\ earthRot = DELTA_CAP * EARTH_ROTATION_SPEED
    /\ moonAngle = DELTA_CAP * MOON_ORBIT_SPEED

\* C2: in a frame whose raw delta exceeds the cap, no body's orbit angle or
\* rotation angle advances by more than 0.05 s times its angular speed, the
\* planets Mercury to Neptune included.
C2_EveryBodyClamped ==
    [][IsFrame /\ lastDelta' > DELTA_CAP =>
         /\ orbitAngle' - orbitAngle <= DELTA_CAP * EARTH_YEAR_SPEED
         /\ earthRot' - earthRot <= DELTA_CAP * EARTH_ROTATION_SPEED
         /\ moonAngle' - moonAngle <= DELTA_CAP * MOON_ORBIT_SPEED
         /\ viewMode = "SOLAR_SYSTEM" =>
              \A p \in PlanetNames :
                 /\ Abs(planetRot'[p] - planetRot[p]) <= Abs(RotationAdvance(p, DELTA_CAP))
                 /\ meshT # NotRead =>
                      PlanetMeshAngle(p, meshT') - PlanetMeshAngle(p, meshT)
                          <= OrbitAdvance(p, DELTA_CAP)]_vars

\* C3: in every frame the position PlanetMesh gives a planet and the position
\* the focus tracker computes for the same planet are equal.
C3_TrackerAgreesWithMesh ==
    (viewMode = "SOLAR_SYSTEM" /\ meshT # NotRead
        /\ lastTrack.found /\ lastTrack.name \in PlanetNames)
    => lastTrack.pos = planetPos[lastTrack.name]

\* C4: the Earth's orbit angle never decreases, whatever frames (delta >= 0),
\* view-mode changes and focus changes happen.
C4_OrbitAngleMonotone == [][orbitAngle' >= orbitAngle]_vars

C4_Witness ==
    /\ frameNo >= 2
    /\ events >= 2
    /\ viewMode = "SOLAR_SYSTEM"
    /\ focusedPlanet # NoFocus
    /\ orbitAngle > DELTA_CAP * EARTH_YEAR_SPEED

\* C5: after EARTH_FREE -> PlanetFocus(Earth) -> EARTH_FREE, when the lock of
\* the last switch is released and after every later EARTH_FREE frame, the
\* camera is within 300 units of the Earth.
C5_RoundTripWithinDriftBound ==
    [][(trip' = "back" /\ viewMode' = "EARTH_FREE" /\ ~isTransitioning'
          /\ (IsFrame \/ IsRelease))
       => DistSq(camPos', earthPos') <= DRIFT_LIMIT * DRIFT_LIMIT]_vars

\* the round trip is done, the lock released, the user has panned away and the
\* drift guard of a later frame has put the camera back
C5_Witness ==
    /\ trip = "back"
    /\ ~isTransitioning
    /\ frameNo >= 1
    /\ camPos = VAdd(earthPos, EarthFreeResnap)
    /\ camTarget = earthPos

\* C6: while the lock is held no frame writes the camera position or the look
\* target, in any view mode.
C6_NoCameraWriteWhileLocked ==
    [][IsFrame /\ isTransitioning => camPos' = camPos /\ camTarget' = camTarget]_vars

C8_FocusOnlyInSolarSystem ==
    /\ viewMode \in ViewModes
    /\ focusedPlanet # NoFocus => viewMode = "SOLAR_SYSTEM"
    /\ CameraMode(viewMode, focusedPlanet) = "PlanetFocus" <=> focusedPlanet # NoFocus

\* a mode button was pressed while a planet was focused
C8_Witness == trip = "back" /\ focusedPlanet = NoFocus /\ viewMode = "EARTH_FREE"

\* C9: each of the seven camera modes can be entered by some sequence of
\* presses of the controls of Earth3D.
C9_EveryModeEnterable ==
    \A cm \in CameraModes :
        \E st \in UIReach({ << viewMode, focusedPlanet >> }) :
            CameraMode(st[1], st[2]) = cm

\* C10: a frame in SOLAR_SYSTEM with a focus name that is no body leaves the
\* camera and the look target as they are, as the unfocused mode does, and
\* still advances the Earth's orbit and rotation and the previous-position
\* tracker.
C10_UnresolvedFocusFallsBack ==
    [][(IsFrame /\ viewMode = "SOLAR_SYSTEM"
          /\ focusedPlanet \notin PlanetNames \cup {"Earth", NoFocus})
       => LET capped == IF lastDelta' > DELTA_CAP THEN DELTA_CAP ELSE lastDelta'
          IN  /\ camPos' = camPos
              /\ camTarget' = camTarget
              /\ ~lastTrack'.found
              /\ orbitAngle' = orbitAngle + capped * EARTH_YEAR_SPEED
              /\ earthRot' = earthRot + capped * EARTH_ROTATION_SPEED
              /\ earthPos' = EarthOrbitPos(orbitAngle')
              /\ prevEarthPos' = earthPos']_vars

C10_Witness ==
    /\ viewMode = "SOLAR_SYSTEM"
    /\ focusedPlanet = "Pluto"
    /\ lastTrack.name = "Pluto"
    /\ ~lastTrack.found
    /\ lastDelta > 0
    /\ orbitAngle > 0
    /\ prevEarthPos = earthPos

\* The question set each topic of Topics is to give
ExpectedSet(tp) ==
    CASE tp = TopicShadowLab -> SHADOW_QUESTIONS
      [] tp = TopicOrbitCommand -> DEFAULT_QUESTIONS
      [] tp = TopicSeasons -> DEFAULT_QUESTIONS
      [] tp = TopicSunlight -> SHADOW_QUESTIONS
      [] tp = TopicKaamos -> KAAMOS_QUESTIONS
      [] tp = TopicUnrelated -> DEFAULT_QUESTIONS
      [] tp = TopicEmpty -> DEFAULT_QUESTIONS
      [] tp = TopicUpper -> KAAMOS_QUESTIONS
      [] tp = TopicTwoKeys -> KAAMOS_QUESTIONS
      [] tp = TopicDefaultKey -> SHADOW_QUESTIONS
      [] tp = TopicPrefix -> DEFAULT_QUESTIONS
      [] tp = TopicPolarNight -> KAAMOS_QUESTIONS
      [] tp = TopicMidnightSun -> DEFAULT_QUESTIONS

\* C13: generateQuizQuestions resolves to the question set of the first key of
\* TOPIC_MAP, in the order kaamos, polar, shadow, incidence, default, that is
\* a substring of the lower-cased topic, and to the default set when no key
\* is; "kaamos polar night" gives the Kaamos set, "unrelated xyz" the default.
C13_FirstKeyInOrder ==
    \A n \in DOMAIN fetches :
        fetches[n].by = "generateQuizQuestions" =>
            LET tp == fetches[n].topic
                got == fetches[n].promise.value
                held == {i \in DOMAIN TOPIC_MAP : Includes(ToLowerCase(tp), TOPIC_MAP[i].key)}
            IN  /\ << TOPIC_MAP[1].key, TOPIC_MAP[2].key, TOPIC_MAP[3].key,
                      TOPIC_MAP[4].key, TOPIC_MAP[5].key >>
                     = << KeyKaamos, KeyPolar, KeyShadow, KeyIncidence, KeyDefault >>
                /\ \A i \in held : (\A j \in held : i <= j) => got = TOPIC_MAP[i].data
                /\ held = {} => got = DEFAULT_QUESTIONS
                /\ got = ExpectedSet(tp)

C13_Witness ==
    /\ Len(fetches) = 2
    /\ fetches[1].by = "generateQuizQuestions"
    /\ fetches[1].topic = TopicKaamos
    /\ fetches[1].promise.value = KAAMOS_QUESTIONS
    /\ fetches[2].by = "generateQuizQuestions"
    /\ fetches[2].topic = TopicUnrelated
    /\ fetches[2].promise.value = DEFAULT_QUESTIONS

\* C14: for every topic, the empty string included, the promises of
\* generateQuizQuestions and of generateAstroCommands are fulfilled (not
\* rejected, not pending) with a non-empty list.
C14_ServiceTotal ==
    \A n \in DOMAIN fetches :
        /\ fetches[n].promise.state = "fulfilled"
        /\ Len(fetches[n].promise.value) > 0

C14_Witness ==
    /\ Len(fetches) = 2
    /\ fetches[1].by = "generateQuizQuestions"
    /\ fetches[1].topic = TopicEmpty
    /\ fetches[1].promise.value = DEFAULT_QUESTIONS
    /\ fetches[2].by = "generateAstroCommands"
    /\ fetches[2].topic = TopicEmpty
    /\ Len(fetches[2].promise.value) = 4

\* The options of a question that QuizModule marks as the correct one, lines
\* 102 and 125
CorrectOptions(q) ==
    {idx \in 0..(Len(q.options) - 1) : idx = q.correctAnswerIndex}

\* C15: every question generateQuizQuestions returns for a topic has
\* 0 <= correctAnswerIndex < options.length, so exactly one option QuizModule
\* displays is the correct one.
C15_AnswerIndexValid ==
    /\ \A tp \in Topics :
         LET data == generateQuizQuestions(tp)
         IN  \A n \in DOMAIN data :
                /\ 0 <= data[n].correctAnswerIndex
                /\ data[n].correctAnswerIndex < Len(data[n].options)
    /\ \A n \in DOMAIN questions :
         /\ 0 <= questions[n].correctAnswerIndex
         /\ questions[n].correctAnswerIndex < Len(questions[n].options)
         /\ Cardinality(CorrectOptions(questions[n])) = 1

\* the last question of the shadow set is on, answered with its correct option
C15_Witness ==
    /\ QuestionShown
    /\ questions = SHADOW_QUESTIONS
    /\ currentIndex = 2
    /\ isAnswered
    /\ selectedOption = CurrentQ.correctAnswerIndex
    /\ score >= 1

\* C16: at a sun altitude of 45 degrees the shadow length is the object height
\* of the formula, 100, as tan(45 degrees) = 1.
C16_ShadowAt45 ==
    sunHeight = 45 => ShadowLength(sunHeight) = OBJECT_HEIGHT * LengthScale

\* the lab shows the shadow of the initial altitude beside its quiz
C16_Witness ==
    /\ sunHeight = 45
    /\ topic = TopicShadowLab
    /\ QuestionShown
    /\ ShadowLength(sunHeight) = 100 * LengthScale

\* C17: for every altitude of the slider (5 to 90) the shadow length is
\* finite, not negative and at most the maximum of 600; at 5 and below it is
\* 600.
C17_ShadowWithinMaximum ==
    /\ ShadowLength(sunHeight) >= 0
    /\ ShadowLength(sunHeight) <= MAX_SHADOW * LengthScale
    /\ sunHeight <= 5 => ShadowLength(sunHeight) = MAX_SHADOW * LengthScale

\* The planets whose rotationSpeed is negative
Retrograde == {p \in PlanetNames : PLANETS[p].rotPeriod < 0}

\* C18: the planets of negative rotationSpeed are Venus and Uranus; in every
\* frame with delta > 0 their rotation angle decreases, by rotationSpeed *
\* delta; every planet's orbital speed is positive and its orbit angle
\* startAngle + t * speed increases with the elapsed time.
C18_RetrogradeRotation ==
    /\ [](Retrograde = {"Venus", "Uranus"})
    /\ [](\A p \in PlanetNames : PLANETS[p].period > 0)
    /\ [][(IsFrame /\ viewMode = "SOLAR_SYSTEM" /\ lastDelta' > 0) =>
            \A p \in Retrograde :
               /\ planetRot'[p] < planetRot[p]
               /\ planetRot'[p] - planetRot[p] =
                    RoundDiv(lastDelta' * BASE_ROTATION_SPEED * 100, PLANETS[p].rotPeriod)]_vars
    /\ [][(IsFrame /\ viewMode = "SOLAR_SYSTEM" /\ meshT # NotRead /\ meshT' > meshT) =>
            \A p \in PlanetNames :
               /\ PlanetMeshAngle(p, meshT') > PlanetMeshAngle(p, meshT)
               /\ planetPos'[p] = PlanetMeshPos(p, meshT')]_vars

C18_Witness ==
    /\ viewMode = "SOLAR_SYSTEM"
    /\ frameNo >= 2
    /\ lastDelta > 0
    /\ meshT > lastDelta
    /\ planetRot["Venus"] < 0
    /\ planetRot["Uranus"] < planetRot["Venus"]
    /\ planetRot["Mars"] > 0

\* C19: the blend factor does not decrease as dot(normal, sunDir) grows; it
\* is 0 at and below the lower edge, 1 at and above the upper edge, and in
\* between it is the Hermite step t*t*(3-2t) and rises with no jump (from one
\* step of the dot product to the next by no more than 2 / band width of the
\* step); the Earth's band is [-0.2, 0.2], the Moon's [-0.02, 0.02], narrower.
C19_BlendMonotoneContinuous ==
    LET x == dotProd
        Hermite(t) == t * t * (3 * DotScale - 2 * t)
    IN  /\ \A y \in DotRange : y <= x =>
              /\ EarthDayFactor(y) <= EarthDayFactor(x)
              /\ MoonDayFactor(y) <= MoonDayFactor(x)
        /\ x <= -200 => EarthDayFactor(x) = 0
        /\ x >= 200 => EarthDayFactor(x) = One
        /\ x <= -20 => MoonDayFactor(x) = 0
        /\ x >= 20 => MoonDayFactor(x) = One
        /\ (x > -200 /\ x < 200) =>
              EarthDayFactor(x) = Hermite(RoundDiv((x + 200) * DotScale, 400))
        /\ (x > -20 /\ x < 20) =>
              MoonDayFactor(x) = Hermite(((x + 20) * DotScale) \div 40)
        /\ x < DotScale =>
              /\ (EarthDayFactor(x + 1) - EarthDayFactor(x)) \div 2 <= One \div 400
              /\ (MoonDayFactor(x + 1) - MoonDayFactor(x)) \div 2 <= One \div 40
        /\ MOON_EDGE < EARTH_EDGE

\* a fragment inside both bands
C19_Witness ==
    /\ dotProd = 10
    /\ 0 < EarthDayFactor(dotProd)
    /\ EarthDayFactor(dotProd) < MoonDayFactor(dotProd)
    /\ MoonDayFactor(dotProd) < One

\* C20: in a frame every body position is written before the camera and the
\* light directions of that frame are computed from it: after a frame the
\* sun position of the Moon's and of the Earth's shader come from the Earth
\* position and the angles of that frame.
C20_KinematicsBeforeLighting ==
    frameNo > 0 =>
        /\ moonSun.earth = earthPos
        /\ moonSun.angle = moonAngle
        /\ earthSun.earth = earthPos
        /\ earthSun.rot = earthRot


----------------------------------------------------------------------------
\* The view mode Earth3D holds, line 1017
UIMode == UIState[1]

C12_FailureIsLocal ==
    (\E p \in PlanetNames : texture[p] = "failed") => canvas # Crashed

----------------------------------------------------------------------------
(* C21: after any frames and mode changes the Moon's orbit angle about the  *)
(* Earth is 13.03571428571429 (365/28) times the Earth's orbit angle about  *)
(* the Sun.                                                                 *)
C21_MoonEarthRatio ==
    moonAngle * 28 = orbitAngle * 365

\* frames with a delta above the cap and a mode change lie behind
C21_Witness ==
    /\ frameNo >= 2
    /\ events >= 1
    /\ lastDelta > DELTA_CAP
    /\ viewMode # "EARTH_FREE"
    /\ orbitAngle >= 2 * DELTA_CAP * EARTH_YEAR_SPEED
    /\ moonAngle * 28 = orbitAngle * 365

----------------------------------------------------------------------------
\* A frame of EARTH_FREE with the lock free: the branch of line 777
IsFollowFrame == IsFrame /\ viewMode = "EARTH_FREE" /\ ~isTransitioning

\* The drift guard of line 785 fires in the frame
IsResnap ==
    DistSq(VAdd(camPos, VSub(earthPos', prevEarthPos)), earthPos')
        > DRIFT_LIMIT * DRIFT_LIMIT

(* C22: a frame of EARTH_FREE outside the lock that does not re-snap moves  *)
(* the camera and the look target by exactly the Earth's change of position *)
(* since the previous frame, so both keep their offset from the Earth.      *)
C22_FollowTranslates ==
    [][(IsFollowFrame /\ ~IsResnap) =>
          /\ VSub(camPos', camPos) = VSub(earthPos', earthPos)
          /\ VSub(camTarget', camTarget) = VSub(earthPos', earthPos)
          /\ VSub(camPos', earthPos') = VSub(camPos, earthPos)
          /\ VSub(camTarget', earthPos') = VSub(camTarget, earthPos)]_vars

\* the last frame took the follow branch with the Earth moving; the camera
\* holds the offset the release of the lock gave it
C22_Witness ==
    /\ viewMode = "EARTH_FREE"
    /\ ~isTransitioning
    /\ lastBranch = "follow"
    /\ lastDelta > 0
    /\ earthPos # EarthStart
    /\ VSub(camPos, earthPos) = EarthFreeStart
    /\ camTarget = earthPos

(* C23: after every frame of EARTH_FREE outside the lock the camera is at   *)
(* most 300 from the Earth: when the follow leaves it farther, the frame    *)
(* puts the camera at the Earth + (0,10,40) and the look target on the      *)
(* Earth.                                                                   *)
C23_DriftGuard ==
    [][IsFollowFrame =>
          /\ DistSq(camPos', earthPos') <= DRIFT_LIMIT * DRIFT_LIMIT
          /\ IsResnap => /\ camPos' = VAdd(earthPos', EarthFreeResnap)
                         /\ camTarget' = earthPos']_vars

\* the user panned beyond the bound with no mode change before, and the last
\* frame has put the camera back
C23_Witness ==
    /\ viewMode = "EARTH_FREE"
    /\ ~isTransitioning
    /\ trip = "none"
    /\ lastBranch = "resnap"
    /\ lastDelta > 0
    /\ camPos = VAdd(earthPos, EarthFreeResnap)
    /\ camTarget = earthPos

----------------------------------------------------------------------------
\* A frame that takes the tracking branch of lines 813-831
IsTrackFrame == IsFrame /\ lastBranch' = "track"

\* targetRadius * 6 + 10 of the focused body, line 827, in tenths
IdealDist == TrackTarget(focusedPlanet, earthPos', elapsed').radius * 6 + 100

\* Vector3.length()
Length(u) == Sqrt(LenSq(u))

(* C24, as stated: after every frame in planet focus the camera's offset    *)
(* from the look target is within 2 * (6 * radius + 10) of the focused body.*)
C24_OffsetWithinBound ==
    [][IsTrackFrame =>
          LenSq(VSub(camPos', camTarget')) <= (2 * IdealDist) * (2 * IdealDist)]_vars

(* C24, amended: the bound applies to the offset the frame steers by, not   *)
(* to the camera.  With the offset measured from the look target the frame  *)
(* has just moved, the frame moves the camera a tenth of the way to the     *)
(* body plus that offset, shortened to 6 * radius + 10 when it is longer    *)
(* than twice that.  So the offset after the frame is at most nine tenths   *)
(* of the offset before, plus a tenth of the steering offset, plus a tenth  *)
(* of the distance from the look target to the body: an offset above the    *)
(* bound shrinks over the following frames and is not cut at once.  The     *)
(* roundings of the model add up to less than 0.2 units.                    *)
C24_OffsetShrinksTowardsBound ==
    [][IsTrackFrame =>
          LET offset == VSub(camPos, camTarget')
              steer == IF LenSq(offset) > (2 * IdealDist) * (2 * IdealDist)
                       THEN IdealDist ELSE Length(offset)
              lag == VSub(lastTrack'.pos, camTarget')
          IN  /\ 10 * Length(VSub(camPos', camTarget'))
                    <= 9 * Length(offset) + steer + Length(lag) + 20
              /\ camTarget' = Lerp(camTarget, lastTrack'.pos, 10)]_vars

\* the focus was put on a body from the overview, and after a tracking frame
\* the camera is still farther from the look target than the bound
C24_Witness ==
    /\ viewMode = "SOLAR_SYSTEM"
    /\ focusedPlanet = "Mercury"
    /\ lastBranch = "track"
    /\ lastTrack.found
    /\ LenSq(VSub(camPos, camTarget))
          > (2 * (PLANETS["Mercury"].radius * 6 + 100))
              * (2 * (PLANETS["Mercury"].radius * 6 + 100))

----------------------------------------------------------------------------
\* The point of p's circle at the time t, from p's constants alone
PositionAt(p, t) ==
    LET angle == PLANETS[p].startAngle * TenthRad
                     + RoundDiv(t * BASE_ORBIT_SPEED * 1000, PLANETS[p].period)
        a == RoundDiv(angle, TrigDiv)
    IN  Vec(RoundDiv(Cos(a) * PLANETS[p].distance, TrigScale),
            0,
            RoundDiv(Sin(a) * PLANETS[p].distance, TrigScale))

(* C25: the position of every planet is a function of the elapsed time its  *)
(* frame callback read and of the planet's constants, whatever mode and     *)
(* focus changes came before, SOLAR_SYSTEM left and entered again included. *)
C25_PlanetPositionDeterministic ==
    (rendered # {} /\ meshT # NotRead) =>
        \A p \in PlanetNames : planetPos[p] = PositionAt(p, meshT)

\* SOLAR_SYSTEM was entered, left and entered again, the planets mounted anew,
\* and a frame at a later time has placed them
C25_Witness ==
    /\ viewMode = "SOLAR_SYSTEM"
    /\ rendered = PlanetNames
    /\ events >= 3
    /\ meshT # NotRead
    /\ meshT > DELTA_CAP
    /\ orbitAngle < meshT * EARTH_YEAR_SPEED
    /\ planetPos["Mercury"] = PositionAt("Mercury", meshT)
    /\ planetPos["Mercury"] # PositionAt("Mercury", 0)

----------------------------------------------------------------------------
(* C26: over the slider's range the shadow does not grow with the altitude: *)
(* the shadow at the altitude shown is at least as long as the shadow at    *)
(* every higher altitude of the slider.                                     *)
C26_ShadowMonotone ==
    \A b \in SLIDER_MIN..SLIDER_MAX :
        sunHeight < b => ShadowLength(sunHeight) >= ShadowLength(b)

----------------------------------------------------------------------------
(* C27: OrbitCommand in GROUP mode never shows its failure state: in every  *)
(* state with mode GROUP, loading is true or commands is not empty.         *)
C27_NoFailureState ==
    mode = "GROUP" => (commandsLoading \/ Len(commands) > 0)

----------------------------------------------------------------------------
\* The questions of the round that have an answer: those before the current
\* one (nextQuestion is offered only once answered, line 133) and the
\* current one when isAnswered
AnsweredInRound == currentIndex + (IF isAnswered THEN 1 ELSE 0)

\* A step in which the current question gets its answer
IsAnswerStep == ~isAnswered /\ isAnswered'

\* A step that starts a new round: nextQuestion on the last question
IsNewRound ==
    /\ isAnswered /\ ~isAnswered'
    /\ currentIndex = Len(questions) - 1

\* The answer adds one to the score exactly when it is the correct index
AnswerStepScores ==
    IsAnswerStep =>
        /\ QuestionShown
        /\ selectedOption' \in 0..(Len(CurrentQ.options) - 1)
        /\ score' = IF selectedOption' = CurrentQ.correctAnswerIndex
                    THEN score + 1 ELSE score
        /\ currentIndex' = currentIndex
        /\ questions' = questions

\* An answered question keeps its selection and the score until Next
AnsweredStays ==
    (isAnswered /\ isAnswered') =>
        /\ selectedOption' = selectedOption
        /\ score' = score
        /\ currentIndex' = currentIndex

\* The score changes by an answer or by the reset of a new round
ScoreChangesOnlyByAnswer ==
    score' # score => (IsAnswerStep \/ (IsNewRound /\ score' = 0))

\* C28: QuizModule takes at most one answer per question (an answered
\* question keeps its selected option and the score until Next), the answer
\* adds one to the score exactly when the chosen index is the question's
\* correctAnswerIndex, the score changes in no other way but the reset of a
\* new round, and 0 <= score <= answered in round <= questions.length in
\* every state.
C28_OneAnswerPerQuestion ==
    /\ [](0 <= score /\ score <= AnsweredInRound
                     /\ AnsweredInRound <= Len(questions))
    /\ [][AnswerStepScores /\ AnsweredStays /\ ScoreChangesOnlyByAnswer]_vars

\* Every question of a round answered correctly: score = answered = length
C28_Witness ==
    /\ QuestionShown /\ isAnswered
    /\ currentIndex = Len(questions) - 1 /\ score = Len(questions)
    /\ selectedOption = CurrentQ.correctAnswerIndex

----------------------------------------------------------------------------
\* Next on the last question: index 0, score 0, no selection, and a reload
\* of the questions of the current topic under the loading view
NewRoundResets ==
    IsNewRound =>
        /\ currentIndex' = 0
        /\ score' = 0
        /\ selectedOption' = NoOption
        /\ loading'
        /\ fetches' # << >>
        /\ fetches'[Len(fetches')].by = "next"
        /\ fetches'[Len(fetches')].promise
              = Fulfilled(generateQuizQuestions(topic))

\* C29: whenever QuizModule displays a question, 0 <= currentIndex <
\* questions.length, across answers, Next, topic changes and fetch
\* completions; and Next on the last question starts a new round
\* (currentIndex 0, score 0, nothing selected, questions reloaded).
C29_IndexInRange ==
    /\ [](QuestionShown =>
            (0 <= currentIndex /\ currentIndex < Len(questions)))
    /\ [][NewRoundResets]_vars

\* The reload of a new round is under way
C29_Witness ==
    /\ fetches # << >>
    /\ Head(fetches).by = "next"
    /\ loading
    /\ currentIndex = 0 /\ score = 0 /\ selectedOption = NoOption

----------------------------------------------------------------------------
\* The continuation of a fetch started by the effect of lines 20-32 runs and
\* leaves a question on the screen
IsEffectResolve ==
    /\ fetches # << >>
    /\ Head(fetches).by = "effect"
    /\ fetches' = Tail(fetches)
    /\ QuestionShown'

\* C30: when the topic of a mounted QuizModule changes, the quiz restarts for
\* the new topic: once the questions fetched by the effect are shown,
\* currentIndex is 0, score is 0, no option is selected, isAnswered is false,
\* and the questions are those of the current topic.
C30_TopicChangeRestarts ==
    [][IsEffectResolve =>
          /\ currentIndex' = 0
          /\ score' = 0
          /\ ~isAnswered'
          /\ selectedOption' = NoOption
          /\ questions' = generateQuizQuestions(topic')]_vars

=============================================================================
